---- MODULE Spec2Model ----
(***************************************************************************)
(* Model of the entity schema and validation layer of SimpleMicroservices: *)
(* the pydantic models of src/models/item.py and src/models/mcdonalds.py.   *)
(*                                                                         *)
(* A Python value is a tagged tuple (tag first), a decoded request body or *)
(* a validated instance is a function from field names to values.  The     *)
(* field declarations of every class are data (one table per class) and    *)
(* one validator interprets them the way pydantic's BaseModel does: fields *)
(* in declaration order, a supplied value validated against the annotated  *)
(* type, an omitted field either reported missing (Field(...)) or filled   *)
(* from its default without validation, undeclared keys ignored, all       *)
(* errors collected.                                                       *)
(***************************************************************************)
EXTENDS Integers, Sequences, FiniteSets, TLC

(***************************************************************************)
(* Bounds of the model.                                                    *)
(***************************************************************************)
MaxTime == 1
MaxCalls == 3
MaxMenu == 2

(***************************************************************************)
(* Python values.                                                          *)
(***************************************************************************)
Null == <<"null">>
Str(s) == <<"str", s>>
UuidStr(n) == <<"uuidstr", n>>
IsoStr(t) == <<"isostr", t>>
Uuid(n) == <<"uuid", n>>
Dt(t) == <<"dt", t>>
List(s) == <<"list", s>>
Dict(f) == <<"dict", f>>
Obj(cls, f) == <<"obj", cls, f>>

Tag(v) == v[1]

\* str instances: plain text, the canonical text of a UUID, the ISO text of a datetime
IsStr(v) == Tag(v) \in {"str", "uuidstr", "isostr"}

(***************************************************************************)
(* Field declarations.  default is "required" for Field(...), "None" for   *)
(* Field(None), and the factory's name for Field(default_factory=...).     *)
(***************************************************************************)
FieldDecl(n, t, d) == [name |-> n, type |-> t, default |-> d]

TUuid == <<"UUID">>
TStr == <<"str">>
TDatetime == <<"datetime">>
TList(t) == <<"List", t>>
TOptional(t) == <<"Optional", t>>
TModel(cls) == <<"Model", cls>>

\* ingredients declared Field(None) instead of Field(default_factory=list)
ItemBaseFieldsNoFactory ==
    << FieldDecl("id", TUuid, "uuid4"),
       FieldDecl("name", TStr, "required"),
       FieldDecl("ingredients", TList(TStr), "None") >>

\* name declared Field(None) instead of Field(...)
ItemBaseFieldsNameOptional ==
    << FieldDecl("id", TUuid, "uuid4"),
       FieldDecl("name", TOptional(TStr), "None"),
       FieldDecl("ingredients", TList(TStr), "list") >>

ItemBaseFields ==
    << FieldDecl("id", TUuid, "uuid4"),
       FieldDecl("name", TStr, "required"),
       FieldDecl("ingredients", TList(TStr), "list") >>

ItemCreateFields == ItemBaseFields

\* the Update variant declaring the identity field as well
ItemUpdateFieldsWithId ==
    << FieldDecl("id", TOptional(TUuid), "None"),
       FieldDecl("name", TOptional(TStr), "required"),
       FieldDecl("ingredients", TOptional(TList(TStr)), "list") >>

ItemUpdateFields ==
    << FieldDecl("name", TOptional(TStr), "required"),
       FieldDecl("ingredients", TOptional(TList(TStr)), "list") >>

\* the timestamps declared Field(...) instead of Field(default_factory=datetime.utcnow)
ItemReadFieldsRequired ==
    ItemBaseFields \o
    << FieldDecl("created_at", TDatetime, "required"),
       FieldDecl("updated_at", TDatetime, "required") >>

ItemReadFields ==
    ItemBaseFields \o
    << FieldDecl("created_at", TDatetime, "utcnow"),
       FieldDecl("updated_at", TDatetime, "utcnow") >>

AddressBaseFields ==
    << FieldDecl("id", TUuid, "uuid4"),
       FieldDecl("street", TStr, "required"),
       FieldDecl("city", TStr, "required"),
       FieldDecl("state", TStr, "required"),
       FieldDecl("postal_code", TStr, "required"),
       FieldDecl("country", TStr, "required") >>

McDonaldsBaseFields ==
    << FieldDecl("address", TModel("AddressBase"), "list"),
       FieldDecl("menu", TList(TModel("ItemBase")), "list") >>

McDonaldsCreateFields == McDonaldsBaseFields

McDonaldsUpdateFields ==
    << FieldDecl("address", TOptional(TModel("AddressBase")), "None"),
       FieldDecl("menu", TOptional(TList(TModel("ItemBase"))), "list") >>

McDonaldsReadFields ==
    McDonaldsBaseFields \o
    << FieldDecl("id", TUuid, "uuid4"),
       FieldDecl("created_at", TDatetime, "utcnow"),
       FieldDecl("updated_at", TDatetime, "utcnow") >>

\* the classes that occur as the type of a field
Fields(cls) ==
    CASE cls = "ItemBase" -> ItemBaseFields
      [] cls = "AddressBase" -> AddressBaseFields

FieldNames(fields) == { fields[i].name : i \in 1..Len(fields) }

(***************************************************************************)
(* The environment the default factories read and change: the identifiers  *)
(* uuid4 has returned so far, the readings the clock gives to the next     *)
(* calls of datetime.utcnow, the last reading taken, and the number of     *)
(* list objects the list factory has built.                                *)
(***************************************************************************)
Env(i, ts, n, r) == [issued |-> i, times |-> ts, now |-> n, lists |-> r]

\* Field(default=uuid4()): one identifier, made when the class is defined
uuid4Once(env) == 1

\* uuid.uuid4: a version-4 identifier; the generator is taken never to
\* repeat a value (a collision of 122 random bits is outside the model)
uuid4(env) == Len(env.issued) + 1

\* one call of a default factory: the value it returns and the environment after
CallFactory(d, env) ==
    CASE d = "uuid4" ->
           [value |-> Uuid(uuid4(env)), obj |-> 0,
            env |-> [env EXCEPT !.issued = Append(@, uuid4(env))]]
      [] d = "utcnow" ->
           [value |-> Dt(Head(env.times)), obj |-> 0,
            env |-> [env EXCEPT !.times = Tail(@), !.now = Head(env.times)]]
      [] d = "list" ->
           [value |-> List(<<>>), obj |-> env.lists + 1,
            env |-> [env EXCEPT !.lists = @ + 1]]
      [] d = "None" ->
           [value |-> Null, obj |-> 0, env |-> env]

(***************************************************************************)
(* Validation.  An error is <<loc, kind>>, loc the path of the offending   *)
(* value: field names and, inside a sequence, the element's index.         *)
(***************************************************************************)
Prefix(p, errs) == { << <<p>> \o e[1], e[2] >> : e \in errs }

Good(v, env) == [errs |-> {}, value |-> v, env |-> env]
Bad(kind, env) == [errs |-> { << <<>>, kind >> }, value |-> Null, env |-> env]

RECURSIVE ValidateValue(_, _, _)
RECURSIVE ValidateElems(_, _, _, _)
RECURSIVE ValidateFields(_, _, _, _)

\* the result for element i (h) put before the result for the elements after it (t)
JoinElem(i, h, t) ==
    [errs |-> Prefix(i, h.errs) \cup t.errs,
     value |-> <<h.value>> \o t.value,
     env |-> t.env]

ElemsFrom(type, s, i, h) == JoinElem(i, h, ValidateElems(type, s, i + 1, h.env))

\* the elements s[i..] of a sequence, each against the element type
ValidateElems(type, s, i, env) ==
    IF i > Len(s) THEN Good(<<>>, env)
    ELSE ElemsFrom(type, s, i, ValidateValue(type, s[i], env))

\* a field the payload supplies: its value validated, errors under the field's name
Supplied(f, r) ==
    [errs |-> Prefix(f.name, r.errs), value |-> r.value, env |-> r.env, obj |-> 0]

\* an omitted field declared Field(...)
Missing(f, env) ==
    [errs |-> { << <<f.name>>, "missing" >> }, value |-> Null, env |-> env, obj |-> 0]

\* an omitted field with a default: the default as it is, not validated
Defaulted(c) == [errs |-> {}, value |-> c.value, env |-> c.env, obj |-> c.obj]

FieldResult(f, payload, env) ==
    IF f.name \in DOMAIN payload
    THEN Supplied(f, ValidateValue(f.type, payload[f.name], env))
    ELSE IF f.default = "required" THEN Missing(f, env)
    ELSE Defaulted(CallFactory(f.default, env))

\* the result for field f (h) put before the result for the fields after it (t)
JoinField(f, h, t) ==
    [errs |-> h.errs \cup t.errs,
     value |-> (f.name :> h.value) @@ t.value,
     env |-> t.env,
     objs |-> IF h.obj = 0 THEN t.objs ELSE (f.name :> h.obj) @@ t.objs]

FieldsFrom(fields, payload, i, h) ==
    JoinField(fields[i], h, ValidateFields(fields, payload, i + 1, h.env))

\* the fields fields[i..] of a model against the payload (a dict)
ValidateFields(fields, payload, i, env) ==
    IF i > Len(fields) THEN [errs |-> {}, value |-> <<>>, env |-> env, objs |-> <<>>]
    ELSE FieldsFrom(fields, payload, i, FieldResult(fields[i], payload, env))

AsList(r) == [errs |-> r.errs, value |-> List(r.value), env |-> r.env]
AsObj(cls, r) == [errs |-> r.errs, value |-> Obj(cls, r.value), env |-> r.env]

ValidateValue(type, v, env) ==
    CASE type[1] = "Optional" ->
           IF Tag(v) = "null" THEN Good(v, env) ELSE ValidateValue(type[2], v, env)
      [] type[1] = "UUID" ->
           IF Tag(v) = "uuid" THEN Good(v, env)
           ELSE IF Tag(v) = "uuidstr" THEN Good(Uuid(v[2]), env)
           ELSE IF IsStr(v) THEN Bad("uuid_parsing", env)
           ELSE Bad("uuid_type", env)
      [] type[1] = "str" ->
           IF IsStr(v) THEN Good(v, env) ELSE Bad("string_type", env)
      [] type[1] = "datetime" ->
           IF Tag(v) = "dt" THEN Good(v, env)
           ELSE IF Tag(v) = "isostr" THEN Good(Dt(v[2]), env)
           ELSE IF IsStr(v) THEN Bad("datetime_from_date_parsing", env)
           ELSE Bad("datetime_type", env)
      [] type[1] = "List" ->
           IF Tag(v) = "list" THEN AsList(ValidateElems(type[2], v[2], 1, env))
           ELSE Bad("list_type", env)
      [] type[1] = "Model" ->
           IF Tag(v) = "dict"
           THEN AsObj(type[2], ValidateFields(Fields(type[2]), v[2], 1, env))
           ELSE Bad("model_type", env)

\* an instance, or the collected errors and no instance
Result(r) ==
    [ok |-> r.errs = {},
     value |-> IF r.errs = {} THEN r.value ELSE <<>>,
     errors |-> r.errs,
     objs |-> IF r.errs = {} THEN r.objs ELSE <<>>,
     env |-> r.env]

\* cls.model_validate(payload)
ModelValidate(fields, payload, env) == Result(ValidateFields(fields, payload, 1, env))

(***************************************************************************)
(* Serialization (model_dump in JSON mode): a UUID becomes its canonical   *)
(* text, a datetime its ISO text, an embedded instance a dict.             *)
(***************************************************************************)
RECURSIVE Serialize(_)
Serialize(v) ==
    CASE Tag(v) = "uuid" -> UuidStr(v[2])
      [] Tag(v) = "dt" -> IsoStr(v[2])
      [] Tag(v) = "list" -> List([i \in 1..Len(v[2]) |-> Serialize(v[2][i])])
      [] Tag(v) = "obj" -> Dict([k \in DOMAIN v[3] |-> Serialize(v[3][k])])
      [] OTHER -> v

ModelDump(inst) == [k \in DOMAIN inst |-> Serialize(inst[k])]

(***************************************************************************)
(* Update merge (spec.md section 4.3): every field the validated Update    *)
(* instance carries a value for replaces the existing value wholesale, a   *)
(* field it carries no value for (None) keeps the existing value, and      *)
(* updated_at is refreshed from the clock.                                 *)
(***************************************************************************)
Overlay(existing, update) ==
    [k \in DOMAIN existing |->
        IF k \in DOMAIN update /\ Tag(update[k]) # "null" THEN update[k] ELSE existing[k]]

Refreshed(over, c) == [value |-> [over EXCEPT !["updated_at"] = c.value], env |-> c.env]

Merge(existing, update, env) ==
    Refreshed(Overlay(existing, update), CallFactory("utcnow", env))

(***************************************************************************)
(* Inputs: the decoded bodies the collaborators hand to the validators.    *)
(***************************************************************************)
\* every dict that gives some of the keys of choices one of the key's values
Payloads(choices) ==
    UNION { { f \in [K -> UNION { choices[k] : k \in K }] :
                \A k \in K : f[k] \in choices[k] } : K \in SUBSET DOMAIN choices }


\* timestamps a body supplies: the earliest and the latest reading of the clock
Stamps == {IsoStr(0), IsoStr(MaxTime)}

ItemCreateInputs ==
    Payloads([id |-> {UuidStr(1), Str("not-a-uuid")},
              name |-> {Null, Str("Big Mac")},
              ingredients |-> {List(<<>>), List(<<Str("Salt")>>), Str("Salt")}])

ItemReadInputs ==
    { p @@ [name |-> Str("Big Mac"), ingredients |-> List(<<Str("Salt")>>)] :
        p \in Payloads([id |-> {UuidStr(1)}, created_at |-> Stamps, updated_at |-> Stamps]) }

\* keys an Update variant does not declare
Undeclared == [id |-> UuidStr(2), created_at |-> IsoStr(MaxTime)]

ItemUpdateInputs ==
    Payloads([name |-> {Str("Fries")}, ingredients |-> {Null, List(<<Str("Oil")>>)}])
        \cup { [name |-> Str("Fries")] @@ Undeclared }

GoodAddress ==
    [id |-> UuidStr(3), street |-> Str("600 W 125th St"), city |-> Str("New York"), state |-> Str("NY"),
     postal_code |-> Str("10027"), country |-> Str("US")]

OtherAddress == [GoodAddress EXCEPT !.street = Str("1 Main St")]

NoStreetAddress ==
    [city |-> Str("New York"), state |-> Str("NY"),
     postal_code |-> Str("10027"), country |-> Str("US")]

GoodItem == [id |-> UuidStr(1), name |-> Str("Big Mac"), ingredients |-> List(<<Str("Salt")>>)]
BareItem == [name |-> Str("Fries")]
NamelessItem == [ingredients |-> List(<<Str("Salt")>>)]

SeqsUpTo(S, n) == UNION { [1..k -> S] : k \in 0..n }

McDonaldsCreateInputs ==
    Payloads([address |-> {Dict(GoodAddress), Dict(NoStreetAddress)},
              menu |-> { List(m) :
                           m \in SeqsUpTo({Dict(GoodItem), Dict(BareItem), Dict(NamelessItem)},
                                          MaxMenu) }])

McDonaldsReadInputs ==
    { p @@ [menu |-> List(<<Dict(GoodItem)>>)] :
        p \in Payloads([address |-> {Dict(GoodAddress)},
                        created_at |-> Stamps, updated_at |-> Stamps]) }

McDonaldsUpdateInputs ==
    Payloads([address |-> {Dict(OtherAddress)}, menu |-> {Null, List(<<Dict(BareItem)>>)}])
        \cup { [address |-> Dict(OtherAddress)] @@ Undeclared }

(***************************************************************************)
(* State.                                                                  *)
(***************************************************************************)
VARIABLES
    clock,    \* the UTC clock
    issued,   \* the identifiers uuid4 has returned, in order
    lists,    \* the number of list objects the list factory has built
    store,    \* the persisted Read instance the collaborator holds, if any
    last      \* the last operation: its input and what it returned

vars == <<clock, issued, lists, store, last>>

Outcome(op, payload, r, existing, update) ==
    [op |-> op, payload |-> payload, ok |-> r.ok, value |-> r.value,
     errors |-> r.errors, objs |-> r.objs, existing |-> existing, update |-> update,
     issued0 |-> issued, lists0 |-> lists, clock0 |-> clock]

Init ==
    /\ clock = 0
    /\ issued = <<>>
    /\ lists = 0
    /\ store = <<>>
    /\ last = [op |-> "none", payload |-> <<>>, ok |-> FALSE, value |-> <<>>,
               errors |-> {}, objs |-> <<>>, existing |-> <<>>, update |-> <<>>,
               issued0 |-> <<>>, lists0 |-> 0, clock0 |-> 0]

Holds(cls) == store # <<>> /\ store[1][2] = cls

\* the environment after an operation becomes the state
Commit(env) ==
    /\ Len(env.issued) + env.lists <= MaxCalls
    /\ clock' = env.now
    /\ issued' = env.issued
    /\ lists' = env.lists

Tick ==
    /\ clock < MaxTime
    /\ clock' = clock + 1
    /\ UNCHANGED <<issued, lists, store, last>>

\* an operation ends: its effects on the environment, its result, the store
Done(op, payload, r, existing, update, st) ==
    /\ Commit(r.env)
    /\ last' = Outcome(op, payload, r, existing, update)
    /\ store' = st

\* cls.model_validate(p) of a Create variant
Create(op, fields, p) ==
    Done(op, p, ModelValidate(fields, p, Env(issued, <<>>, clock, lists)), <<>>, <<>>, store)

\* a valid Read instance is what the collaborator persists
ReadDone(cls, p, r) ==
    Done(cls, p, r, <<>>, <<>>, IF r.ok THEN <<Obj(cls, r.value)>> ELSE store)

\* cls.model_validate(p) of a Read variant; the clock may advance between
\* the two calls of datetime.utcnow
Read(cls, fields, p, t) ==
    ReadDone(cls, p, ModelValidate(fields, p, Env(issued, <<clock, t>>, clock, lists)))

WithMerge(r, m) == [r EXCEPT !.value = m.value, !.env = m.env]

\* a valid Update instance r merged onto the existing instance
Merged(r, existing) ==
    IF r.ok THEN WithMerge(r, Merge(existing, r.value, r.env)) ELSE r

UpdateDone(op, u, existing, r) ==
    Done(op, u, Merged(r, existing), existing, r.value, store)

\* validate the Update payload and merge it onto the persisted instance
Update(op, cls, fields, u) ==
    /\ Holds(cls)
    /\ UpdateDone(op, u, store[1][3],
                  ModelValidate(fields, u, Env(issued, <<clock>>, clock, lists)))

RoundTripDone(op, fields, existing, dump) ==
    Done(op, dump, ModelValidate(fields, dump, Env(issued, <<>>, clock, lists)),
         existing, <<>>, store)

\* serialize the persisted Read instance and validate the result as Base
RoundTrip(op, cls, fields) ==
    /\ Holds(cls)
    /\ RoundTripDone(op, fields, store[1][3], ModelDump(store[1][3]))

ItemCreate == \E p \in ItemCreateInputs : Create("ItemCreate", ItemCreateFields, p)

ItemRead ==
    \E p \in ItemReadInputs : \E t \in clock..MaxTime :
        Read("ItemRead", ItemReadFields, p, t)

ItemUpdate ==
    \E u \in ItemUpdateInputs : Update("ItemUpdate", "ItemRead", ItemUpdateFields, u)

ItemRoundTrip == RoundTrip("ItemRoundTrip", "ItemRead", ItemBaseFields)

McDonaldsCreate ==
    \E p \in McDonaldsCreateInputs : Create("McDonaldsCreate", McDonaldsCreateFields, p)

McDonaldsRead ==
    \E p \in McDonaldsReadInputs : \E t \in clock..MaxTime :
        Read("McDonaldsRead", McDonaldsReadFields, p, t)

McDonaldsUpdate ==
    \E u \in McDonaldsUpdateInputs :
        Update("McDonaldsUpdate", "McDonaldsRead", McDonaldsUpdateFields, u)

McDonaldsRoundTrip == RoundTrip("McDonaldsRoundTrip", "McDonaldsRead", McDonaldsBaseFields)

(***************************************************************************)
(* Specifications: the Create validators; the Read validators and the      *)
(* round trip through Base; the Read validators and the Update handlers.   *)
(***************************************************************************)
NextCreate ==
    \/ ItemCreate
    \/ McDonaldsCreate

SpecCreate == Init /\ [][NextCreate]_vars

NextRead ==
    \/ Tick
    \/ ItemRead
    \/ McDonaldsRead
    \/ ItemRoundTrip
    \/ McDonaldsRoundTrip

SpecRead == Init /\ [][NextRead]_vars

NextUpdate ==
    \/ Tick
    \/ ItemRead
    \/ McDonaldsRead
    \/ ItemUpdate
    \/ McDonaldsUpdate

SpecUpdate == Init /\ [][NextUpdate]_vars

(***************************************************************************)
(* Properties.                                                             *)
(***************************************************************************)
Omits(k) == k \notin DOMAIN last.payload
Supplies(k) == k \in DOMAIN last.payload

Range(q) == { q[i] : i \in 1..Len(q) }

Updates == {"ItemUpdate", "McDonaldsUpdate"}
Creates == {"ItemCreate", "McDonaldsCreate"}
Reads == {"ItemRead", "McDonaldsRead"}
RoundTrips == {"ItemRoundTrip", "McDonaldsRoundTrip"}

\* the fields an Update variant declares
UpdateFieldNames == FieldNames(ItemUpdateFields) \cup FieldNames(McDonaldsUpdateFields)

\* C1: an Update payload is never rejected for a field it omits: every
\* error of an Update validation is about a value the payload supplies.
C1_UpdateFieldsOptional ==
    last.op \in Updates => \A e \in last.errors : e[1][1] \in DOMAIN last.payload

\* C2: after a successful merge, every field the Update payload omitted has
\* the value it had in the existing instance.
C2_OmittedFieldKept ==
    (last.op \in Updates /\ last.ok) =>
        \A k \in UpdateFieldNames \cap DOMAIN last.existing :
            Omits(k) => last.value[k] = last.existing[k]

\* C3 as claimed: every instance a Create validation returns (ItemCreate,
\* McDonaldsCreate) carries an id, and a generated id differs from all ids
\* generated earlier.
C3_CreateHasFreshId ==
    (last.op \in Creates /\ last.ok) =>
        /\ "id" \in DOMAIN last.value
        /\ Tag(last.value["id"]) = "uuid"
        /\ Omits("id") => last.value["id"][2] \notin Range(last.issued0)

\* C3 as amended: every ItemCreate instance carries an id, a generated id
\* differs from all ids generated earlier (no identifier is issued twice),
\* and a McDonaldsCreate instance has no id field of its own.
C3_ItemCreateHasFreshId ==
    /\ (last.op = "ItemCreate" /\ last.ok) =>
          /\ "id" \in DOMAIN last.value
          /\ Tag(last.value["id"]) = "uuid"
          /\ Omits("id") => last.value["id"][2] \notin Range(last.issued0)
    /\ (last.op = "McDonaldsCreate" /\ last.ok) => "id" \notin DOMAIN last.value
    /\ \A i, j \in 1..Len(issued) : i < j => issued[i] # issued[j]

\* C3 witness: an ItemCreate without id succeeded after identifiers had been generated
C3_Witness ==
    /\ last.op = "ItemCreate" /\ last.ok /\ Omits("id")
    /\ last.issued0 # <<>>

\* C4: in every Read instance updated_at is not earlier than created_at.
C4_UpdatedNotBeforeCreated ==
    (last.op \in Reads /\ last.ok) =>
        last.value["updated_at"][2] >= last.value["created_at"][2]

\* C5: the address of every validated Location instance is an Address.
C5_AddressIsAddress ==
    (last.op \in {"McDonaldsCreate", "McDonaldsRead"} /\ last.ok) =>
        /\ Tag(last.value["address"]) = "obj"
        /\ last.value["address"][2] = "AddressBase"

\* C6: an Item Create payload with a text name, no malformed id and no
\* ingredients validates, the instance's ingredients is the empty sequence,
\* and that sequence is a list object built for this instance.
C6_MissingIngredientsEmpty ==
    ( /\ last.op = "ItemCreate"
      /\ Supplies("name") /\ IsStr(last.payload["name"])
      /\ Supplies("id") => Tag(last.payload["id"]) = "uuidstr"
      /\ Omits("ingredients") ) =>
        /\ last.ok
        /\ last.value["ingredients"] = List(<<>>)
        /\ "ingredients" \in DOMAIN last.objs
        /\ last.objs["ingredients"] > last.lists0

\* C6 witness: such a payload validated after an earlier default list had been built
C6_Witness ==
    /\ last.op = "ItemCreate" /\ last.ok /\ Omits("ingredients")
    /\ last.lists0 > 0

\* the indices of the menu elements of the payload that have no name
NamelessAt == { i \in 1..Len(last.payload["menu"][2]) :
                  "name" \notin DOMAIN last.payload["menu"][2][i][2] }

\* C7: a Location Create payload with an invalid menu element fails as a
\* whole, no instance is returned, the menu indices the errors name are
\* exactly those of the invalid elements, and the address is reported only
\* if it is itself invalid.
C7_InvalidMenuElement ==
    (last.op = "McDonaldsCreate" /\ Supplies("menu") /\ NamelessAt # {}) =>
        /\ ~last.ok
        /\ last.value = <<>>
        /\ { e[1][2] : e \in { x \in last.errors : x[1][1] = "menu" } } = NamelessAt
        /\ \A e \in last.errors : e[1][1] \in {"menu", "address"}
        /\ (\E e \in last.errors : e[1][1] = "address") =>
              (Supplies("address") /\ last.payload["address"] = Dict(NoStreetAddress))

\* C7 witness: a valid address, a valid first and an invalid second menu element
C7_Witness ==
    /\ last.op = "McDonaldsCreate"
    /\ Supplies("address") /\ last.payload["address"] = Dict(GoodAddress)
    /\ Supplies("menu") /\ Len(last.payload["menu"][2]) = 2 /\ NamelessAt = {2}
    /\ last.errors = { << <<"menu", 2, "name">>, "missing" >> }

BaseFieldNames ==
    IF last.op = "ItemRoundTrip" THEN FieldNames(ItemBaseFields)
    ELSE FieldNames(McDonaldsBaseFields)

\* C9: the serialized form of every Read instance validates as Base and
\* the Base instance equals the Read instance on every Base field.
C9_RoundTrip ==
    last.op \in RoundTrips =>
        /\ last.ok
        /\ \A k \in BaseFieldNames : last.value[k] = last.existing[k]

Timestamps == {"created_at", "updated_at"}

\* C10 as claimed: a Read validation of an input that omits created_at or
\* updated_at fails.
C10_ReadRequiresTimestamps ==
    (last.op \in Reads /\ \E k \in Timestamps : Omits(k)) => ~last.ok

\* C10 as amended: a Read validation never reports an omitted timestamp
\* missing; the instance of an input that omits one carries, in its place,
\* a reading of the clock taken during the validation.
C10_ReadDefaultsTimestamps ==
    last.op \in Reads =>
        \A k \in Timestamps : Omits(k) =>
            /\ \A e \in last.errors : e[1] # <<k>>
            /\ last.ok =>
                  /\ Tag(last.value[k]) = "dt"
                  /\ last.clock0 <= last.value[k][2]
                  /\ last.value[k][2] <= clock

\* C10 witness: a Read input that omits created_at only validated
C10_Witness ==
    /\ last.op \in Reads /\ last.ok
    /\ Omits("created_at") /\ Supplies("updated_at")
    /\ Tag(last.value["created_at"]) = "dt"

====
